---------------------------- MODULE Spec2Model ----------------------------
(***************************************************************************)
(* A model of the forensiq API client (src/forensiq.go): the Forensiq      *)
(* client value, its two operations Check and Ready, the query encoding of *)
(* a CheckRequest, the JSON decoding of a CheckResponse and the metrics    *)
(* sample emitted per response.                                            *)
(*                                                                         *)
(* Text is modelled as a sequence of tokens (a token is a TLA+ string):    *)
(* a query string "ck=a%26b" is <<"ck", "=", "a", "%", "26", "b">>.        *)
(***************************************************************************)
EXTENDS Integers, Sequences, FiniteSets, TLC

\* Number of call slots (goroutines calling Check or Ready on one client).
NumProcs == 2

Procs == 1..NumProcs

(***************************************************************************)
(* net/url: query escaping, url.Values, Encode and the server's parse.     *)
(***************************************************************************)

\* The hexadecimal code QueryEscape writes after "%" for a reserved token,
\* "" for a token that is written as it is.
HexOf(c) ==
    CASE c = "&" -> "26"
      [] c = "=" -> "3D"
      [] c = "%" -> "25"
      [] c = "+" -> "2B"
      [] c = "<" -> "3C"
      [] c = ">" -> "3E"
      [] c = "?" -> "3F"
      [] c = "#" -> "23"
      [] OTHER -> ""

\* The token a hexadecimal code stands for, "" for an invalid code.
CharOf(h) ==
    CASE h = "26" -> "&"
      [] h = "3D" -> "="
      [] h = "25" -> "%"
      [] h = "2B" -> "+"
      [] h = "3C" -> "<"
      [] h = "3E" -> ">"
      [] h = "3F" -> "?"
      [] h = "23" -> "#"
      [] OTHER -> ""

\* A query written without escaping.
QueryEscapeNone(s) == s

\* url.QueryEscape: a space becomes "+", a reserved token becomes %XX.
RECURSIVE QueryEscape(_)
QueryEscape(s) ==
    IF s = <<>> THEN <<>>
    ELSE LET c == Head(s)
             e == IF c = " " THEN <<"+">>
                  ELSE IF HexOf(c) # "" THEN <<"%", HexOf(c)>>
                  ELSE <<c>>
         IN e \o QueryEscape(Tail(s))

\* url.QueryUnescape: "+" becomes a space, %XX the token it encodes; ok is
\* FALSE on an invalid escape.
RECURSIVE QueryUnescape(_)
QueryUnescape(s) ==
    IF s = <<>> THEN [ok |-> TRUE, val |-> <<>>]
    ELSE IF Head(s) = "%"
         THEN IF Len(s) < 2 \/ CharOf(s[2]) = ""
              THEN [ok |-> FALSE, val |-> <<>>]
              ELSE LET r == QueryUnescape(SubSeq(s, 3, Len(s)))
                   IN [ok |-> r.ok, val |-> <<CharOf(s[2])>> \o r.val]
         ELSE LET r == QueryUnescape(Tail(s))
                  c == IF Head(s) = "+" THEN " " ELSE Head(s)
              IN [ok |-> r.ok, val |-> <<c>> \o r.val]

\* The keys the client writes, in the byte order url.Values.Encode sorts by.
KeyOrder == <<"ck", "cmp", "id", "ip", "output", "rt", "seller", "sub", "ua", "url">>

\* url.Values.Set: the key's values are replaced by the one value.
ValuesSet(v, k, x) == [kk \in DOMAIN v \cup {k} |-> IF kk = k THEN <<x>> ELSE v[kk]]

\* key=value for each value of one key, joined by "&".
RECURSIVE EncodeKey(_, _)
EncodeKey(k, vals) ==
    IF vals = <<>> THEN <<>>
    ELSE LET one  == QueryEscape(<<k>>) \o <<"=">> \o QueryEscape(Head(vals))
             rest == EncodeKey(k, Tail(vals))
         IN IF rest = <<>> THEN one ELSE one \o <<"&">> \o rest

\* url.Values.Encode: the keys in sorted order, joined by "&".
RECURSIVE EncodeFrom(_, _)
EncodeFrom(v, i) ==
    IF i > Len(KeyOrder) THEN <<>>
    ELSE LET k    == KeyOrder[i]
             rest == EncodeFrom(v, i + 1)
             one  == IF k \in DOMAIN v THEN EncodeKey(k, v[k]) ELSE <<>>
         IN IF one = <<>> THEN rest
            ELSE IF rest = <<>> THEN one
            ELSE one \o <<"&">> \o rest

Encode(v) == EncodeFrom(v, 1)

\* The position of the first token x in s at or after i, Len(s) + 1 if none.
RECURSIVE IndexFrom(_, _, _)
IndexFrom(s, x, i) ==
    IF i > Len(s) THEN Len(s) + 1
    ELSE IF s[i] = x THEN i
    ELSE IndexFrom(s, x, i + 1)

\* url.ParseQuery as the stub server runs it (r.URL.Query()): the pairs of
\* the raw query in order; a pair with an invalid escape is dropped.
RECURSIVE ParseQuery(_)
ParseQuery(q) ==
    IF q = <<>> THEN <<>>
    ELSE LET amp  == IndexFrom(q, "&", 1)
             part == SubSeq(q, 1, amp - 1)
             rest == ParseQuery(SubSeq(q, amp + 1, Len(q)))
             eq   == IndexFrom(part, "=", 1)
             k    == QueryUnescape(SubSeq(part, 1, eq - 1))
             x    == QueryUnescape(SubSeq(part, eq + 1, Len(part)))
         IN IF part = <<>> \/ ~k.ok \/ ~x.ok THEN rest
            ELSE <<[key |-> k.val, val |-> x.val]>> \o rest

\* The values of key k among parsed pairs, in order.
RECURSIVE QueryValues(_, _)
QueryValues(pairs, k) ==
    IF pairs = <<>> THEN <<>>
    ELSE (IF Head(pairs).key = <<k>> THEN <<Head(pairs).val>> ELSE <<>>)
         \o QueryValues(Tail(pairs), k)

\* url.Values.Get as the stub server runs it: the first value, "" if none.
QueryGet(q, k) ==
    LET vs == QueryValues(ParseQuery(q), k)
    IN IF vs = <<>> THEN <<>> ELSE Head(vs)


(***************************************************************************)
(* CheckRequest and its serialisation.                                     *)
(***************************************************************************)

\* net.IP.String(): the nil address prints as "<nil>", an address as its
\* dotted text (one token here).
IPString(ip) == IF ip = <<>> THEN <<"<", "nil", ">">> ELSE ip

\* CheckRequest.toValues: the eight request fields under their keys.
toValues(cr) ==
    LET v0 == [k \in {} |-> <<>>]
        v1 == ValuesSet(v0, "ip", IPString(cr.IP))
        v2 == ValuesSet(v1, "rt", cr.RequestType)
        v3 == ValuesSet(v2, "url", cr.URL)
        v4 == ValuesSet(v3, "seller", cr.SellerID)
        v5 == ValuesSet(v4, "sub", cr.SubID)
        v6 == ValuesSet(v5, "cmp", cr.Campaign)
        v7 == ValuesSet(v6, "ua", cr.UserAgent)
        v8 == ValuesSet(v7, "id", cr.CookieID)
    IN v8

\* The zero CheckRequest (CheckRequest{} of the tests).
ZeroRequest ==
    [IP |-> <<>>, RequestType |-> <<>>, URL |-> <<>>, SellerID |-> <<>>,
     SubID |-> <<>>, Campaign |-> <<>>, UserAgent |-> <<>>, CookieID |-> <<>>]

\* A request with every field populated.
FullRequest ==
    [IP |-> <<"8.8.8.8">>, RequestType |-> <<"display">>,
     URL |-> <<"http://www.dailymotion.com/video">>, SellerID |-> <<"123">>,
     SubID |-> <<"78679676">>, Campaign |-> <<"217673313">>,
     UserAgent |-> <<"Mozilla/5.0", " ", "Chrome/47">>,
     CookieID |-> <<"2acc8d3b">>]

\* A request whose fields hold query syntax: an attempt to add or replace
\* the ck and output parameters.
InjectRequest ==
    [IP |-> <<>>, RequestType |-> <<"click", "&", "output", "=", "XML">>,
     URL |-> <<"http://e.com/", "?", "ck", "=", "evil", "#", "f">>,
     SellerID |-> <<"%", "26", "ck", "=", "evil">>,
     SubID |-> <<>>, Campaign |-> <<"a", "+", "b">>,
     UserAgent |-> <<"x", "&", "ck", "=", "evil", "&", "output", "=", "XML">>,
     CookieID |-> <<"=">>]

Requests == {ZeroRequest, FullRequest, InjectRequest}

(***************************************************************************)
(* The client configuration and url.Parse of its Host.                     *)
(***************************************************************************)

Hosts == {"http://api.forensiq.com",
          "http://api.forensiq.com/v1?ck=evil&output=XML#frag",
          ":bad"}

ClientKeys == {<<>>, <<"123abc">>, <<"k", "&", "ck", "=", "x">>}

\* f.httpClient: http.DefaultClient after New (and in effect for the nil of
\* a Forensiq literal, for which ctxhttp uses http.DefaultClient), or a
\* client given to SetHTTPClient; StubClient is a client whose RoundTripper
\* answers without looking at the request's context.
HTTPClients == {"DefaultClient", "StubClient"}

\* Whether the client's transport fails a request whose context is done
\* (net/http's Transport does).
HonoursContext(client) == client # "StubClient"

\* url.Parse of the Host: ":bad" has no scheme before its colon and is an
\* error; the others parse into scheme, host, path, query and fragment.
UrlParse(h) ==
    CASE h = "http://api.forensiq.com" ->
           [ok |-> TRUE, Scheme |-> "http", Host |-> "api.forensiq.com",
            Path |-> "", RawQuery |-> <<>>, Fragment |-> ""]
      [] h = "http://api.forensiq.com/v1?ck=evil&output=XML#frag" ->
           [ok |-> TRUE, Scheme |-> "http", Host |-> "api.forensiq.com",
            Path |-> "/v1",
            RawQuery |-> <<"ck", "=", "evil", "&", "output", "=", "XML">>,
            Fragment |-> "frag"]
      [] OTHER ->
           [ok |-> FALSE, Scheme |-> "", Host |-> "", Path |-> "",
            RawQuery |-> <<>>, Fragment |-> ""]

\* http.NewRequest("GET", uri.String(), nil) fails on an invalid method or
\* on a URL text that does not parse; "GET" is valid and the text rendered
\* from a URL that url.Parse returned parses again.
NewRequestFails(uri) == ~uri.ok

\* Check's request: path /check, the encoded values with ck and output set
\* after the request's own, and the Content-Type header.
CheckHTTPRequest(host, clientKey, cr) ==
    LET uri == UrlParse(host)
        v   == ValuesSet(ValuesSet(toValues(cr), "ck", clientKey),
                         "output", <<"JSON">>)
    IN [Method |-> "GET", Scheme |-> uri.Scheme, Host |-> uri.Host,
        Path |-> "/check", RawQuery |-> Encode(v),
        ContentType |-> "application/json"]

\* Ready's request: path /ready; the query of the Host, if any, is kept.
ReadyHTTPRequest(host) ==
    LET uri == UrlParse(host)
    IN [Method |-> "GET", Scheme |-> uri.Scheme, Host |-> uri.Host,
        Path |-> "/ready", RawQuery |-> uri.RawQuery, ContentType |-> ""]

(***************************************************************************)
(* Response bodies, as token streams, and encoding/json's Decode into a    *)
(* CheckResponse.                                                          *)
(***************************************************************************)

P(x) == [t |-> "punct", v |-> x]
S(x) == [t |-> "string", v |-> x]
N(x) == [t |-> "number", v |-> x]
L(x) == [t |-> "literal", v |-> x]
G(x) == [t |-> "text", v |-> x]
W == [t |-> "space", v |-> "\n"]
\* The point of a stream where Read returns an error instead of data.
IOErr == [t |-> "ioerror", v |-> ""]

\* {"nonSuspect":true,"riskScore":0,"timeMs":10}
BodyTest ==
    <<P("{"), S("nonSuspect"), P(":"), L("true"), P(","), S("riskScore"),
      P(":"), N("0"), P(","), S("timeMs"), P(":"), N("10"), P("}")>>
BodyOne == <<N("1")>>
BodyZero == <<N("0")>>
BodyEmpty == <<>>
BodyOneNL == <<N("1"), W>>
BodyEleven == <<N("11")>>
BodyYes == <<G("yes")>>
BodyNull == <<L("null")>>
\* Forbidden\n, what http.Error writes for a 403.
BodyForbidden == <<G("Forbidden"), W>>
\* {"ipr":"yes","riskScore":7,"pxy":true}: ipr is not a boolean.
BodyBadType ==
    <<P("{"), S("ipr"), P(":"), S("yes"), P(","), S("riskScore"), P(":"),
      N("7"), P(","), S("pxy"), P(":"), L("true"), P("}")>>
\* {"riskScore":7 with the object left open.
BodyTruncated == <<P("{"), S("riskScore"), P(":"), N("7")>>
\* {"extra":{"a":1},"spoofed":3,"riskScore":null} trailing
BodyExtra ==
    <<P("{"), S("extra"), P(":"), P("{"), S("a"), P(":"), N("1"), P("}"),
      P(","), S("spoofed"), P(":"), N("3"), P(","), S("riskScore"), P(":"),
      L("null"), P("}"), W, G("trailing")>>
\* 1 and then a read error.
BodyOneThenError == <<N("1"), IOErr>>
\* {"riskScore":7} and then a read error.
BodyObjectThenError ==
    <<P("{"), S("riskScore"), P(":"), N("7"), P("}"), IOErr>>
\* {"riskScore": and then a read error.
BodyErrorInObject == <<P("{"), S("riskScore"), P(":"), IOErr>>

Bodies ==
    {BodyTest, BodyOne, BodyZero, BodyEmpty, BodyOneNL, BodyEleven, BodyYes,
     BodyNull, BodyForbidden, BodyBadType, BodyTruncated, BodyExtra,
     BodyOneThenError, BodyObjectThenError, BodyErrorInObject}

\* The data of a stream before its read error, if any.
StreamData(body) == SubSeq(body, 1, IndexFrom(body, IOErr, 1) - 1)

\* Whether reading the stream to its end meets a read error.
StreamFails(body) == IndexFrom(body, IOErr, 1) <= Len(body)

\* ioutil.ReadAll: the whole text, or the read error.
ReadAll(body) ==
    IF StreamFails(body) THEN [b |-> <<>>, err |-> "read error"]
    ELSE [b |-> body, err |-> "nil"]

\* The first position at or after i that holds no white space.
RECURSIVE SkipSpace(_, _)
SkipSpace(s, i) ==
    IF i <= Len(s) /\ s[i].t = "space" THEN SkipSpace(s, i + 1) ELSE i

\* The scanner of encoding/json over the data of a stream: the value that
\* starts at i. st is "ok" with the position after the value, "syntax" on a
\* token that cannot follow, "eof" when the data ends inside the value.
\* members are the key/value pairs of an object, in order.
RECURSIVE ScanValue(_, _)
RECURSIVE ScanMembers(_, _, _, _, _)
ScanValue(s, i) ==
    LET tok == s[i]
        bad == [st |-> "syntax", next |-> i, val |-> tok, members |-> <<>>]
    IN CASE tok.t \in {"number", "string", "literal"} ->
              [st |-> "ok", next |-> i + 1, val |-> tok, members |-> <<>>]
         [] tok = P("{") -> ScanMembers(s, i + 1, "keyOrClose", "", <<>>)
         [] OTHER -> bad

ScanMembers(s, i, state, key, acc) ==
    LET j   == SkipSpace(s, i)
        obj == [t |-> "object", v |-> ""]
        eof == [st |-> "eof", next |-> j, val |-> obj, members |-> acc]
        bad == [st |-> "syntax", next |-> j, val |-> obj, members |-> acc]
        end == [st |-> "ok", next |-> j + 1, val |-> obj, members |-> acc]
    IN IF j > Len(s) THEN eof
       ELSE LET tok == s[j]
            IN CASE state = "keyOrClose" ->
                      IF tok = P("}") THEN end
                      ELSE IF tok.t = "string"
                           THEN ScanMembers(s, j + 1, "colon", tok.v, acc)
                           ELSE bad
                 [] state = "key" ->
                      IF tok.t = "string"
                      THEN ScanMembers(s, j + 1, "colon", tok.v, acc)
                      ELSE bad
                 [] state = "colon" ->
                      IF tok = P(":")
                      THEN ScanMembers(s, j + 1, "value", key, acc)
                      ELSE bad
                 [] state = "value" ->
                      LET r == ScanValue(s, j)
                      IN IF r.st # "ok"
                         THEN [st |-> r.st, next |-> r.next, val |-> obj,
                               members |-> acc]
                         ELSE ScanMembers(s, r.next, "commaOrClose", "",
                                  Append(acc, [key |-> key, val |-> r.val]))
                 [] OTHER ->
                      IF tok = P(",")
                      THEN ScanMembers(s, j + 1, "key", "", acc)
                      ELSE IF tok = P("}") THEN end
                      ELSE bad

\* CheckResponse{}: every field at its zero value.
ZeroResponse ==
    [RiskScore |-> 0, SellerDomain |-> 0, DomainViewed |-> 0,
     DomainHidden |-> 0, SellerViewed |-> 0, SellerHidden |-> 0,
     IPReputation |-> FALSE, Proxy |-> FALSE, AutomatedTraffic |-> FALSE,
     HostingProvider |-> FALSE, Spoofed |-> 0, NonSuspect |-> FALSE,
     TimeMS |-> 0]

IntFields ==
    {"RiskScore", "SellerDomain", "DomainViewed", "DomainHidden",
     "SellerViewed", "SellerHidden", "Spoofed", "TimeMS"}

\* The struct tags of CheckResponse: the field a JSON key names exactly,
\* "" if none. Spoofed has no tag and goes by its own name.
FieldOfTag(k) ==
    CASE k = "riskScore" -> "RiskScore"
      [] k = "sellerDomain" -> "SellerDomain"
      [] k = "domainViewed" -> "DomainViewed"
      [] k = "domainHidden" -> "DomainHidden"
      [] k = "sellerViewed" -> "SellerViewed"
      [] k = "sellerHidden" -> "SellerHidden"
      [] k = "ipr" -> "IPReputation"
      [] k = "pxy" -> "Proxy"
      [] k = "atf" -> "AutomatedTraffic"
      [] k = "hst" -> "HostingProvider"
      [] k = "Spoofed" -> "Spoofed"
      [] k = "nonSuspect" -> "NonSuspect"
      [] k = "timeMs" -> "TimeMS"
      [] OTHER -> ""

\* encoding/json matches a key that names no field exactly without regard
\* to case: the exact spelling of the keys the bodies use in another case.
FoldKey(k) ==
    CASE k = "spoofed" -> "Spoofed"
      [] OTHER -> k

FieldOf(k) == IF FieldOfTag(k) # "" THEN FieldOfTag(k) ELSE FieldOfTag(FoldKey(k))

\* The integer a number token writes.
IntOf(x) ==
    CASE x = "0" -> 0
      [] x = "1" -> 1
      [] x = "3" -> 3
      [] x = "7" -> 7
      [] x = "10" -> 10
      [] x = "11" -> 11
      [] OTHER -> 0

\* Whether a scanned value can be stored in field f.
Storable(f, val) ==
    IF f \in IntFields THEN val.t = "number"
    ELSE val.t = "literal" /\ val.v \in {"true", "false"}

StoredValue(f, val) == IF f \in IntFields THEN IntOf(val.v) ELSE val.v = "true"

\* Unmarshal of an object's members into cresp: an unknown key and a null
\* are skipped, a value of the wrong type is skipped and the first such
\* error is kept while the members after it are still stored.
RECURSIVE UnmarshalMembers(_, _, _)
UnmarshalMembers(members, cresp, err) ==
    IF members = <<>> THEN [cresp |-> cresp, err |-> err]
    ELSE LET m == Head(members)
             f == FieldOf(m.key)
         IN IF f = "" \/ m.val = L("null")
            THEN UnmarshalMembers(Tail(members), cresp, err)
            ELSE IF Storable(f, m.val)
            THEN UnmarshalMembers(Tail(members),
                     [cresp EXCEPT ![f] = StoredValue(f, m.val)], err)
            ELSE UnmarshalMembers(Tail(members), cresp,
                     IF err = "nil" THEN "json: cannot unmarshal" ELSE err)

\* json.NewDecoder(resp.Body).Decode(&cresp): the first JSON value of the
\* stream is scanned whole and then stored; what follows it is not read.
\* The result is cresp as the decoder leaves it, and the error.
Decode(body, cresp) ==
    LET data == StreamData(body)
        i    == SkipSpace(data, 1)
    IN IF i > Len(data)
       THEN [cresp |-> cresp,
             err |-> IF StreamFails(body) THEN "read error" ELSE "EOF"]
       ELSE LET r == ScanValue(data, i)
            IN CASE r.st = "syntax" ->
                      [cresp |-> cresp, err |-> "json: syntax error"]
                 [] r.st = "eof" ->
                      [cresp |-> cresp,
                       err |-> IF StreamFails(body) THEN "read error"
                               ELSE "unexpected EOF"]
                 [] r.val.t = "object" ->
                      UnmarshalMembers(r.members, cresp, "nil")
                 [] r.next > Len(data) /\ StreamFails(body) ->
                      [cresp |-> cresp, err |-> "read error"]
                 [] r.val = L("null") -> [cresp |-> cresp, err |-> "nil"]
                 [] OTHER -> [cresp |-> cresp, err |-> "json: cannot unmarshal"]

(***************************************************************************)
(* The metrics sample.                                                     *)
(***************************************************************************)

StatusForbidden == 403

\* responseStatus: the context's error first, then the status code.
responseStatus(ctxErr, statusCode) ==
    IF ctxErr # "nil"
    THEN IF ctxErr = "context deadline exceeded" THEN "timeout" ELSE "canceled"
    ELSE IF statusCode >= 200 /\ statusCode < 400 THEN "ok"
    ELSE "error"

\* The sample sts.Timing hands to the metrics collaborator for a response.
TimingSample(request, ctxErr, statusCode) ==
    [request |-> request, status |-> responseStatus(ctxErr, statusCode),
     status_code |-> statusCode]

(***************************************************************************)
(* The transport and the two operations after the transport returns.       *)
(***************************************************************************)

CtxErrs == {"nil", "context deadline exceeded", "context canceled"}

Statuses == {200, 302, 400, 403, 500}

NoOutcome == [kind |-> "none", err |-> "nil", status |-> 0, body |-> <<>>]

\* Every client's transport taken not to look at the context.
TransportIgnoresContext(client, ctxErr, statuses, bodies) ==
    {[kind |-> "error",
      err |-> IF ctxErr # "nil" THEN ctxErr ELSE "transport error",
      status |-> 0, body |-> <<>>]}
    \cup {[kind |-> "response", err |-> "nil", status |-> st, body |-> b] :
            st \in statuses, b \in bodies}

\* What ctxhttp.Do and ctxhttp.Get return through a client: a transport
\* failure (the context's error when the context is done) or a response; a
\* transport that honours the context gives no response once it is done.
TransportOutcomes(client, ctxErr, statuses, bodies) ==
    {[kind |-> "error",
      err |-> IF ctxErr # "nil" THEN ctxErr ELSE "transport error",
      status |-> 0, body |-> <<>>]}
    \cup IF ctxErr # "nil" /\ HonoursContext(client) THEN {}
         ELSE {[kind |-> "response", err |-> "nil", status |-> st,
                body |-> b] : st \in statuses, b \in bodies}

\* A transport called a second time with the same request.
TransmitTwice(s, client, req) ==
    Append(Append(s, [client |-> client, req |-> req]),
           [client |-> client, req |-> req])

\* One call of the transport: the client in use and the request handed over.
Transmit(s, client, req) == Append(s, [client |-> client, req |-> req])

\* Every client error taken for a rejected key.
IsClientError(statusCode) == statusCode >= 400 /\ statusCode < 500

\* resp.StatusCode == http.StatusForbidden
IsForbidden(statusCode) == statusCode = StatusForbidden

\* The decoder's response returned with its error.
DecodeFailurePartial(d) == d

\* Check's return on a Decode error: the zero response, not the decoder's.
DecodeFailure(d) == [cresp |-> ZeroResponse, err |-> d.err]

\* A status outside 2xx treated as a failure before decoding.
CheckResultStatusChecked(resp) ==
    IF resp.status = 403
    THEN [cresp |-> ZeroResponse, err |-> "ErrInvalidClientKey"]
    ELSE IF resp.status < 200 \/ resp.status >= 300
    THEN [cresp |-> ZeroResponse, err |-> "unexpected status"]
    ELSE LET d == Decode(resp.body, ZeroResponse)
         IN IF d.err # "nil" THEN [cresp |-> ZeroResponse, err |-> d.err] ELSE d

\* What Check returns for a response: ErrInvalidClientKey on a 403 without
\* reading the body, otherwise what the decoder makes of the body.
CheckResult(resp) ==
    IF IsForbidden(resp.status)
    THEN [cresp |-> ZeroResponse, err |-> "ErrInvalidClientKey"]
    ELSE LET d == Decode(resp.body, ZeroResponse)
         IN IF d.err # "nil" THEN DecodeFailure(d) ELSE d

\* Close called at the end of the function instead of deferred: the early
\* return of the 403 branch skips it.
CheckStepsCloseAtEnd(resp) ==
    <<"timing">>
    \o (IF resp.status = 403 THEN <<"log">> ELSE <<"decode", "close">>)

\* What Check does with a response, in order; the deferred Close runs last
\* on every return.
CheckSteps(resp) ==
    <<"timing">>
    \o (IF IsForbidden(resp.status) THEN <<"log">> ELSE <<"decode">>)
    \o <<"close">>

\* The body compared after trimming what follows its first token.
ReadyValueTrimmed(b) == b # <<>> /\ Head(b) = [t |-> "number", v |-> "1"]

\* string(b) == "1"
ReadyValue(b) == b = <<N("1")>>

\* What Ready returns for a response: the read error, or the comparison.
ReadyResult(resp) ==
    LET r == ReadAll(resp.body)
    IN IF r.err # "nil" THEN [ready |-> FALSE, err |-> r.err]
       ELSE [ready |-> ReadyValue(r.b), err |-> "nil"]

\* What Ready does with a response, in order.
ReadySteps(resp) == <<"timing", "readall", "close">>

(***************************************************************************)
(* The state: one client, and NumProcs slots each running one call.        *)
(***************************************************************************)

VARIABLES
    Host,        \* f.Host
    ClientKey,   \* f.ClientKey
    httpClient,  \* f.httpClient
    pc,          \* per slot: "idle", "inflight", "responded", "done"
    op,          \* per slot: "none", "check", "ready"
    creq,        \* per slot: the CheckRequest of a Check
    ctx,         \* per slot: ctx.Err() now
    ctx0,        \* per slot: ctx.Err() when the call started
    sts,         \* per slot: whether the context carries a metrics collaborator
    sent,        \* per slot: the calls of the transport, in order
    outcome,     \* per slot: what the transport returned (resp, err)
    bodyState,   \* per slot: resp.Body is "none", "open" or "closed"
    events,      \* per slot: what the call did, in order
    samples,     \* per slot: the samples the metrics collaborator received
    cresp,       \* per slot: the CheckResponse returned
    ready,       \* per slot: the bool returned
    err          \* per slot: the error returned

config == <<Host, ClientKey, httpClient>>
inputs == <<op, creq, ctx0, sts>>
returns == <<cresp, ready, err>>
vars == <<Host, ClientKey, httpClient, pc, op, creq, ctx, ctx0, sts, sent,
          outcome, bodyState, events, samples, cresp, ready, err>>

\* The response kept in one place shared by the calls.
RespShared(p) ==
    outcome[CHOOSE q \in Procs :
               /\ outcome[q].kind = "response"
               /\ \A r \in Procs : outcome[r].kind = "response" => q <= r]

\* The response a call holds in its own resp variable.
RespOf(p) == outcome[p]

IdleSlots ==
    /\ pc = [p \in Procs |-> "idle"]
    /\ op = [p \in Procs |-> "none"]
    /\ creq = [p \in Procs |-> ZeroRequest]
    /\ ctx = [p \in Procs |-> "nil"]
    /\ ctx0 = [p \in Procs |-> "nil"]
    /\ sts = [p \in Procs |-> FALSE]
    /\ sent = [p \in Procs |-> <<>>]
    /\ outcome = [p \in Procs |-> NoOutcome]
    /\ bodyState = [p \in Procs |-> "none"]
    /\ events = [p \in Procs |-> <<>>]
    /\ samples = [p \in Procs |-> <<>>]
    /\ cresp = [p \in Procs |-> ZeroResponse]
    /\ ready = [p \in Procs |-> FALSE]
    /\ err = [p \in Procs |-> "nil"]

\* New(host, clientKey), or a Forensiq literal with SetHTTPClient.
Init ==
    /\ Host \in Hosts
    /\ ClientKey \in ClientKeys
    /\ httpClient = "DefaultClient"
    /\ IdleSlots

\* SetHTTPClient
SetHTTPClient(hc) ==
    /\ httpClient' = hc
    /\ httpClient # hc
    /\ UNCHANGED <<Host, ClientKey, pc, op, creq, ctx, ctx0, sts, sent, outcome,
                   bodyState, events, samples, cresp, ready, err>>

\* Check up to its call of the transport: the Host is parsed, the request
\* built and handed to ctxhttp.Do; a Host that does not parse, or a request
\* that cannot be built, ends the call.
CheckBegin(p, reqs, ctxs, stss) ==
    /\ pc[p] = "idle"
    /\ \E cr \in reqs, c \in ctxs, m \in stss :
         LET uri == UrlParse(Host)
         IN /\ op' = [op EXCEPT ![p] = "check"]
            /\ creq' = [creq EXCEPT ![p] = cr]
            /\ ctx' = [ctx EXCEPT ![p] = c]
            /\ ctx0' = [ctx0 EXCEPT ![p] = c]
            /\ sts' = [sts EXCEPT ![p] = m]
            /\ IF ~uri.ok
               THEN /\ pc' = [pc EXCEPT ![p] = "done"]
                    /\ events' = [events EXCEPT ![p] = <<"log">>]
                    /\ err' = [err EXCEPT ![p] = "url: parse error"]
                    /\ UNCHANGED sent
               ELSE IF NewRequestFails(uri)
               THEN /\ pc' = [pc EXCEPT ![p] = "done"]
                    /\ err' = [err EXCEPT ![p] = "http: request error"]
                    /\ UNCHANGED <<sent, events>>
               ELSE /\ pc' = [pc EXCEPT ![p] = "inflight"]
                    /\ sent' = [sent EXCEPT ![p] =
                          Transmit(sent[p], httpClient,
                                   CheckHTTPRequest(Host, ClientKey, cr))]
                    /\ UNCHANGED <<events, err>>
    /\ UNCHANGED <<config, outcome, bodyState, samples, cresp, ready>>

\* Ready up to its call of the transport; ctxhttp.Get builds the request.
ReadyBegin(p, ctxs, stss) ==
    /\ pc[p] = "idle"
    /\ \E c \in ctxs, m \in stss :
         LET uri == UrlParse(Host)
         IN /\ op' = [op EXCEPT ![p] = "ready"]
            /\ ctx' = [ctx EXCEPT ![p] = c]
            /\ ctx0' = [ctx0 EXCEPT ![p] = c]
            /\ sts' = [sts EXCEPT ![p] = m]
            /\ IF ~uri.ok
               THEN /\ pc' = [pc EXCEPT ![p] = "done"]
                    /\ err' = [err EXCEPT ![p] = "url: parse error"]
                    /\ UNCHANGED sent
               ELSE IF NewRequestFails(uri)
               THEN /\ pc' = [pc EXCEPT ![p] = "done"]
                    /\ err' = [err EXCEPT ![p] = "http: request error"]
                    /\ UNCHANGED sent
               ELSE /\ pc' = [pc EXCEPT ![p] = "inflight"]
                    /\ sent' = [sent EXCEPT ![p] =
                          Transmit(sent[p], httpClient, ReadyHTTPRequest(Host))]
                    /\ UNCHANGED err
    /\ UNCHANGED <<config, creq, outcome, bodyState, events, samples, cresp,
                   ready>>

\* The context of a running call is canceled or passes its deadline.
CtxDone(p) ==
    /\ pc[p] \in {"inflight", "responded"}
    /\ ctx[p] = "nil"
    /\ \E c \in CtxErrs \ {"nil"} : ctx' = [ctx EXCEPT ![p] = c]
    /\ UNCHANGED <<config, pc, inputs, sent, outcome, bodyState, events,
                   samples, returns>>

\* The transport returns: an error ends the call with the zero result and
\* that error; a response leaves the call holding an open body.
TransportReturn(p, statuses, bodies) ==
    /\ pc[p] = "inflight"
    /\ \E o \in TransportOutcomes(sent[p][1].client, ctx[p], statuses, bodies) :
         /\ outcome' = [outcome EXCEPT ![p] = o]
         /\ IF o.kind = "error"
            THEN /\ pc' = [pc EXCEPT ![p] = "done"]
                 /\ err' = [err EXCEPT ![p] = o.err]
                 /\ UNCHANGED bodyState
            ELSE /\ pc' = [pc EXCEPT ![p] = "responded"]
                 /\ bodyState' = [bodyState EXCEPT ![p] = "open"]
                 /\ UNCHANGED err
    /\ UNCHANGED <<config, inputs, ctx, sent, events, samples, cresp, ready>>

\* The body after the steps a call took: closed once Close has run.
BodyAfter(steps) ==
    IF \E i \in 1..Len(steps) : steps[i] = "close" THEN "closed" ELSE "open"

\* The samples after the steps a call took: one per Timing, if the context
\* carries a collaborator.
SamplesAfter(p, request, steps) ==
    IF sts[p] /\ \E i \in 1..Len(steps) : steps[i] = "timing"
    THEN Append(samples[p], TimingSample(request, ctx[p], RespOf(p).status))
    ELSE samples[p]

\* Check from the transport's response to its return.
CheckFinish(p) ==
    /\ pc[p] = "responded"
    /\ op[p] = "check"
    /\ LET r     == CheckResult(RespOf(p))
           steps == CheckSteps(RespOf(p))
       IN /\ events' = [events EXCEPT ![p] = events[p] \o steps]
          /\ samples' = [samples EXCEPT ![p] = SamplesAfter(p, "check", steps)]
          /\ bodyState' = [bodyState EXCEPT ![p] = BodyAfter(steps)]
          /\ cresp' = [cresp EXCEPT ![p] = r.cresp]
          /\ err' = [err EXCEPT ![p] = r.err]
    /\ pc' = [pc EXCEPT ![p] = "done"]
    /\ UNCHANGED <<config, inputs, ctx, sent, outcome, ready>>

\* Ready from the transport's response to its return.
ReadyFinish(p) ==
    /\ pc[p] = "responded"
    /\ op[p] = "ready"
    /\ LET r     == ReadyResult(RespOf(p))
           steps == ReadySteps(RespOf(p))
       IN /\ events' = [events EXCEPT ![p] = events[p] \o steps]
          /\ samples' = [samples EXCEPT ![p] = SamplesAfter(p, "ready", steps)]
          /\ bodyState' = [bodyState EXCEPT ![p] = BodyAfter(steps)]
          /\ ready' = [ready EXCEPT ![p] = r.ready]
          /\ err' = [err EXCEPT ![p] = r.err]
    /\ pc' = [pc EXCEPT ![p] = "done"]
    /\ UNCHANGED <<config, inputs, ctx, sent, outcome, cresp>>

\* The caller is done with a call's result; the slot runs another call.
Reset(p) ==
    /\ pc[p] = "done"
    /\ pc' = [pc EXCEPT ![p] = "idle"]
    /\ op' = [op EXCEPT ![p] = "none"]
    /\ creq' = [creq EXCEPT ![p] = ZeroRequest]
    /\ ctx' = [ctx EXCEPT ![p] = "nil"]
    /\ ctx0' = [ctx0 EXCEPT ![p] = "nil"]
    /\ sts' = [sts EXCEPT ![p] = FALSE]
    /\ sent' = [sent EXCEPT ![p] = <<>>]
    /\ outcome' = [outcome EXCEPT ![p] = NoOutcome]
    /\ bodyState' = [bodyState EXCEPT ![p] = "none"]
    /\ events' = [events EXCEPT ![p] = <<>>]
    /\ samples' = [samples EXCEPT ![p] = <<>>]
    /\ cresp' = [cresp EXCEPT ![p] = ZeroResponse]
    /\ ready' = [ready EXCEPT ![p] = FALSE]
    /\ err' = [err EXCEPT ![p] = "nil"]
    /\ UNCHANGED config

\* No other slot is running a call or holding a result.
Alone(p) == \A q \in Procs \ {p} : pc[q] = "idle"

\* One call at a time, over every request, context, status and body.
Next ==
    \/ \E hc \in HTTPClients : SetHTTPClient(hc)
    \/ \E p \in Procs : Alone(p) /\ CheckBegin(p, Requests, CtxErrs, BOOLEAN)
    \/ \E p \in Procs : Alone(p) /\ ReadyBegin(p, CtxErrs, BOOLEAN)
    \/ \E p \in Procs : CtxDone(p)
    \/ \E p \in Procs : TransportReturn(p, Statuses, Bodies)
    \/ \E p \in Procs : CheckFinish(p)
    \/ \E p \in Procs : ReadyFinish(p)
    \/ \E p \in Procs : Reset(p)

Spec == Init /\ [][Next]_vars

\* Calls on one client running at once, over a few requests and responses.
NextConc ==
    \/ \E hc \in HTTPClients : SetHTTPClient(hc)
    \/ \E p \in Procs : CheckBegin(p, {FullRequest}, {"nil"}, {TRUE})
    \/ \E p \in Procs : ReadyBegin(p, {"nil"}, {TRUE})
    \/ \E p \in Procs : TransportReturn(p, {200, 403}, {BodyTest, BodyOne})
    \/ \E p \in Procs : CheckFinish(p)
    \/ \E p \in Procs : ReadyFinish(p)
    \/ \E p \in Procs : Reset(p)

InitConc ==
    /\ Host \in {"http://api.forensiq.com", ":bad"}
    /\ ClientKey = <<"123abc">>
    /\ httpClient = "DefaultClient"
    /\ IdleSlots

SpecConc == InitConc /\ [][NextConc]_vars

(***************************************************************************)
(* Properties.                                                             *)
(***************************************************************************)

Done(p) == pc[p] = "done"
Responded(p) == outcome[p].kind = "response"
NoResult(p) == cresp[p] = ZeroResponse /\ ready[p] = FALSE

\* How many times step x occurs in a sequence of steps.
Count(steps, x) == Cardinality({i \in 1..Len(steps) : steps[i] = x})

\* C1: every request Check hands to the transport goes to /check and, read
\* as the server reads it, carries exactly one ck parameter, equal to the
\* client's ClientKey, and exactly one output parameter, equal to JSON,
\* whatever the request's fields hold. (A request is looked at while it is
\* in flight, the state in which it was handed over.)
C1_KeyAndOutputInjected ==
    \A p \in Procs : \A i \in 1..Len(sent[p]) :
        op[p] = "check" /\ pc[p] = "inflight" =>
            LET pairs == ParseQuery(sent[p][i].req.RawQuery)
            IN /\ sent[p][i].req.Path = "/check"
               /\ QueryValues(pairs, "ck") = <<ClientKey>>
               /\ QueryGet(sent[p][i].req.RawQuery, "ck") = ClientKey
               /\ QueryValues(pairs, "output") = << <<"JSON">> >>

C1_Witness ==
    \E p \in Procs :
        /\ op[p] = "check" /\ Len(sent[p]) = 1
        /\ creq[p] = InjectRequest
        /\ ClientKey = <<"k", "&", "ck", "=", "x">>

\* C2: a finished Check returns ErrInvalidClientKey exactly when the
\* transport returned a response with status 403; then the response is the
\* zero value and the body was not handed to the JSON decoder.
C2_InvalidKeyIffForbidden ==
    \A p \in Procs :
        Done(p) /\ op[p] = "check" =>
            /\ err[p] = "ErrInvalidClientKey"
                  <=> (Responded(p) /\ outcome[p].status = 403)
            /\ err[p] = "ErrInvalidClientKey" =>
                  cresp[p] = ZeroResponse /\ Count(events[p], "decode") = 0

C2_Witness ==
    \E p \in Procs :
        /\ Done(p) /\ op[p] = "check" /\ Responded(p)
        /\ outcome[p].status = 403 /\ outcome[p].body = BodyTest
        /\ err[p] = "ErrInvalidClientKey"

\* C3: when Ready got a response whose body reads without error, it
\* returns no error and returns true exactly when the body is the text 1,
\* whatever the status code.
C3_ReadyIffBodyIsOne ==
    \A p \in Procs :
        Done(p) /\ op[p] = "ready" /\ Responded(p)
                /\ ~StreamFails(outcome[p].body) =>
            /\ err[p] = "nil"
            /\ ready[p] <=> outcome[p].body = BodyOne

C3_Witness ==
    \E p \in Procs :
        /\ Done(p) /\ op[p] = "ready" /\ Responded(p)
        /\ outcome[p].status = 500 /\ outcome[p].body = BodyOne
        /\ ready[p]

\* C4: a call that returns an error returns no result: the zero
\* CheckResponse from Check, false from Ready.
C4_NoPartialResult ==
    \A p \in Procs : Done(p) /\ err[p] # "nil" => NoResult(p)

C4_Witness ==
    \E p \in Procs :
        /\ Done(p) /\ op[p] = "check" /\ Responded(p)
        /\ outcome[p].body = BodyBadType
        /\ Decode(outcome[p].body, ZeroResponse).cresp # ZeroResponse
        /\ err[p] = "json: cannot unmarshal"

\* C5 as stated: a call whose context was done when it started returns a
\* context error and no result, for every client configuration.
C5_Original ==
    \A p \in Procs :
        Done(p) /\ ctx0[p] # "nil" =>
            /\ err[p] \in {"context deadline exceeded", "context canceled"}
            /\ NoResult(p)

\* C5 as amended: a call whose context was done when it started, on a
\* client whose Host parses as a URL and whose transport honours the
\* context, returns that context's error and no result.
C5_DoneContextFails ==
    \A p \in Procs :
        Done(p) /\ ctx0[p] # "nil" /\ UrlParse(Host).ok
                /\ HonoursContext(sent[p][1].client) =>
            /\ err[p] = ctx0[p]
            /\ NoResult(p)
            /\ ~Responded(p)

C5_Witness ==
    \E p \in Procs :
        /\ Done(p) /\ op[p] = "check" /\ UrlParse(Host).ok
        /\ Len(sent[p]) = 1 /\ HonoursContext(sent[p][1].client)
        /\ ctx0[p] = "context deadline exceeded"
        /\ err[p] = "context deadline exceeded"

\* C6 as stated: every finished call handed exactly one request to the
\* transport.
C6_Original == \A p \in Procs : Done(p) => Len(sent[p]) = 1

\* C6 as amended: a call hands at most one request to the transport,
\* exactly one when the client's Host parses as a URL and none when it does
\* not; no failure is retried; the request is the one built from the
\* client's configuration and this call's own request.
C6_AtMostOneRequest ==
    \A p \in Procs :
        /\ Len(sent[p]) <= 1
        /\ pc[p] # "idle" => (Len(sent[p]) = 1 <=> UrlParse(Host).ok)
        /\ Len(sent[p]) = 1 =>
              sent[p][1].req =
                  IF op[p] = "check"
                  THEN CheckHTTPRequest(Host, ClientKey, creq[p])
                  ELSE ReadyHTTPRequest(Host)

C6_Witness ==
    \E p \in Procs :
        /\ Done(p) /\ Len(sent[p]) = 1
        /\ outcome[p].kind = "error" /\ err[p] = "transport error"

\* C7: a finished call that got a response has closed its body, once and
\* as its last step; a call that got none has closed nothing; no call that
\* has not finished has closed a body.
C7_BodyClosed ==
    \A p \in Procs :
        /\ Done(p) /\ Responded(p) =>
              /\ bodyState[p] = "closed"
              /\ Count(events[p], "close") = 1
              /\ events[p][Len(events[p])] = "close"
        /\ ~Responded(p) =>
              bodyState[p] = "none" /\ Count(events[p], "close") = 0
        /\ ~Done(p) => Count(events[p], "close") = 0

C7_Witness ==
    \E p \in Procs :
        /\ Done(p) /\ op[p] = "check" /\ Responded(p)
        /\ outcome[p].status = 403 /\ bodyState[p] = "closed"

\* The bodies whose first JSON value is an object or null, with the
\* response each decodes to.
C8_Decodable ==
    [b \in {BodyTest, BodyNull, BodyExtra, BodyObjectThenError} |->
        CASE b = BodyTest ->
               [ZeroResponse EXCEPT !.NonSuspect = TRUE, !.RiskScore = 0,
                                    !.TimeMS = 10]
          [] b = BodyExtra -> [ZeroResponse EXCEPT !.Spoofed = 3]
          [] b = BodyObjectThenError -> [ZeroResponse EXCEPT !.RiskScore = 7]
          [] OTHER -> ZeroResponse]

\* C8: for a response whose status is not 403, what Check returns depends
\* on the body alone: a body that decodes gives the decoded response and no
\* error, at any status; a body that does not decode gives an error other
\* than ErrInvalidClientKey and the zero response, at any status.
C8_StatusIgnored ==
    \A p \in Procs :
        Done(p) /\ op[p] = "check" /\ Responded(p)
                /\ outcome[p].status # 403 =>
            IF outcome[p].body \in DOMAIN C8_Decodable
            THEN err[p] = "nil" /\ cresp[p] = C8_Decodable[outcome[p].body]
            ELSE /\ err[p] \notin {"nil", "ErrInvalidClientKey"}
                 /\ cresp[p] = ZeroResponse

C8_Witness ==
    \E p \in Procs :
        /\ Done(p) /\ op[p] = "check" /\ Responded(p)
        /\ outcome[p].status = 500 /\ outcome[p].body = BodyTest
        /\ err[p] = "nil" /\ cresp[p].NonSuspect /\ cresp[p].TimeMS = 10

\* What holds of the samples: a collaborator that is present has received
\* one sample for a call once the call has done its Timing step, none
\* before and none for a call that got no response; the sample carries the
\* call's name, the response's status code and the status tag, and Timing
\* is the first step after the response.
SampleOnResponse ==
    \A p \in Procs :
        /\ Count(events[p], "timing") = 0 => samples[p] = <<>>
        /\ Done(p) /\ ~Responded(p) => samples[p] = <<>>
        /\ Done(p) /\ Responded(p) =>
              /\ events[p][1] = "timing" /\ Count(events[p], "timing") = 1
              /\ ~sts[p] => samples[p] = <<>>
              /\ sts[p] =>
                    /\ Len(samples[p]) = 1
                    /\ samples[p][1].request = op[p]
                    /\ samples[p][1].status_code = outcome[p].status
                    /\ samples[p][1].status =
                          IF ctx[p] = "context deadline exceeded" THEN "timeout"
                          ELSE IF ctx[p] # "nil" THEN "canceled"
                          ELSE IF outcome[p].status \in 200..399 THEN "ok"
                          ELSE "error"

\* C9 as stated: a metrics collaborator that is present has received, when
\* a call has finished, exactly one sample for it.
C9_Original ==
    \A p \in Procs : Done(p) /\ sts[p] => Len(samples[p]) = 1

\* C10: a step of a call leaves the client's Host, ClientKey and transport
\* as they were, and a finished call has returned what it returns when run
\* alone on the response the transport gave it, whatever the other calls
\* did meanwhile.
C10_CallsIsolated ==
    /\ [](\A p \in Procs :
            Done(p) =>
              IF ~Responded(p) THEN NoResult(p) /\ err[p] # "nil"
              ELSE IF op[p] = "check"
              THEN /\ cresp[p] = CheckResult(outcome[p]).cresp
                   /\ err[p] = CheckResult(outcome[p]).err
                   /\ samples[p] = <<TimingSample("check", ctx[p],
                                                   outcome[p].status)>>
              ELSE /\ ready[p] = ReadyResult(outcome[p]).ready
                   /\ err[p] = ReadyResult(outcome[p]).err
                   /\ samples[p] = <<TimingSample("ready", ctx[p],
                                                   outcome[p].status)>>)
    /\ [][pc' # pc => config' = config]_vars

C10_Witness ==
    \E p \in Procs, q \in Procs :
        /\ pc[p] = "responded" /\ pc[q] = "responded"
        /\ op[p] = "check" /\ op[q] = "ready"
        /\ outcome[p] # outcome[q]

=============================================================================
